---- MODULE Spec2Model ----
(***************************************************************************)
(* A model of package farm (src/farm/farm.go): the quorum write path       *)
(* (New, Insert, Delete, write), the tuple algebra (unionDifference) and   *)
(* the anti-entropy walker (startWalker).                                  *)
(***************************************************************************)
EXTENDS Integers, Sequences, FiniteSets, TLC

\* ------------------------------------------------------------------ bounds

\* The largest number of clusters a farm is built with.
MaxClusters == 3

\* ------------------------------------------------------------------ state

VARIABLES
    \* Farm (farm.go:27-35)
    constructed,    \* New has returned a *Farm
    clusters,       \* len(f.clusters); the clusters are 1..clusters
    writeQuorum,    \* f.writeQuorum
    \* one call of Farm.write (farm.go:198-243)
    wpc,            \* position of the caller inside write
    tuples,         \* the batch
    action,         \* "Insert" or "Delete"
    scatter,        \* per cluster: the scatter goroutine (farm.go:218-220)
    errChan,        \* the buffered response channel
    errors,         \* error messages collected so far, in arrival order
    got,            \* responses consumed
    need,           \* f.writeQuorum as read at farm.go:224
    result,         \* what write returned: "pending", "nil" or the error text
    instr,          \* writeInstrumentation calls recorded
    arrived,        \* history: clusters in the order their responses were sent
    invoked,        \* per cluster: how often the action was invoked on it
    store,          \* the clusters that have applied the batch and hold it
    \* one call of unionDifference (farm.go:249-282)
    tupleSets,      \* the argument: a sequence of tupleSets
    udone,          \* unionDifference has returned
    union,          \* its first result
    difference,     \* its second result
    \* the walker (farm.go:128-196)
    walkerRate,     \* the walkerRate New was called with
    fWalkCompleted, \* f.walkCompleted: "nil" or "chan", the caller's channel
    ckeys,          \* per cluster: the keys its Keys() enumerates
    callerReady,    \* the caller's channel can take a value right now
    ppc,            \* position of the key producer goroutine
    perm,           \* clusters of rand.Perm still to visit in this sweep
    stream,         \* keys the open Keys() channel has still to deliver
    pkey,           \* the key the producer is sending
    anythingSent,   \* farm.go:141
    walkCompleted,  \* the walker's own channel (capacity 1): values buffered
    dpc,            \* position of the driver (startWalker itself)
    batchSize,      \* farm.go:163
    keys,           \* farm.go:174
    \* history of the walker
    emitted,        \* keys the producer has handed over in its current sweep
    pending,        \* those of them not yet passed to a walker Select
    sigMissed,      \* for the completion buffered in walkCompleted: the keys
                    \* of the farm its sweep did not emit (.skipped), and those
                    \* it emitted that no walker Select has seen yet (.pending)
    forwarded,      \* a completion was sent to the caller's channel
    fwdMissed,      \* the keys of both kinds when a completion was last sent
                    \* to the caller
    keysOpened,     \* some cluster's Keys() was called
    requested,      \* ratePolice.Request was called
    walkerSelects,  \* the walker called f.Select
    owed,           \* a walk finished and no signal reached the caller since
    \* Farm.Select (farm.go:108-116) and its callers
    csel,           \* the last Select a client made: arguments, calls, return
    wsel,           \* the Select of the driver's current iteration, likewise
    grant,          \* what Request returned in the driver's current iteration
    unreported,     \* keys passed to Select less keys passed to Report, in all
    inFlight,       \* keys the driver received and has not passed to Select
    credit          \* sweeps completed less completions sent to the caller

wvars == <<wpc, tuples, action, scatter, errChan, errors, got, need, result,
           instr, arrived, invoked, store>>
fvars == <<constructed, clusters, writeQuorum>>
uvars == <<tupleSets, udone, union, difference>>
kvars == <<walkerRate, fWalkCompleted, ckeys, callerReady, ppc, perm, stream,
           pkey, anythingSent, walkCompleted, dpc, batchSize, keys>>
hvars == <<emitted, pending, sigMissed, forwarded, fwdMissed, keysOpened,
           requested, walkerSelects, owed>>
svars == <<csel, wsel, grant, unreported, inFlight, credit>>
vars == <<fvars, wvars, uvars, kvars, hvars, svars>>

\* ------------------------------------------------------------ data model

Keys == {"k1", "k2"}
Members == {"m"}
Scores == {1, 2}

\* common.KeyScoreMember
KSM == [Key : Keys, Score : Scores, Member : Members]

\* keyMember (farm.go:256)
keyMember(tuple) == [Key |-> tuple.Key, Member |-> tuple.Member]

\* The batches handed to Insert and Delete.
Batches ==
    { <<>>,
      <<[Key |-> "k1", Score |-> 1, Member |-> "m"]>>,
      <<[Key |-> "k1", Score |-> 2, Member |-> "m"],
        [Key |-> "k2", Score |-> 1, Member |-> "m"]>> }

\* A nil error.
NoErr == "<nil>"

\* err.Error() of the error cluster c returns from a failed action.
ErrText(c) == "e" \o ToString(c)

\* strings.Join(a, sep)
RECURSIVE Join(_, _)
Join(a, sep) ==
    IF Len(a) = 0 THEN ""
    ELSE IF Len(a) = 1 THEN a[1]
    ELSE a[1] \o sep \o Join(Tail(a), sep)

\* fmt.Errorf("no quorum (%s)", strings.Join(errors, "; ")) (farm.go:240)
QuorumError(errs) == "no quorum (" \o Join(errs, "; ") \o ")"

NoInstr ==
    [call |-> 0, recordCount |-> 0, callDuration |-> 0, recordDuration |-> 0,
     quorumFailure |-> 0]

\* ------------------------------------------------------------------- New

\* New (farm.go:60-90): the fields of the Farm are set from the arguments as
\* they are; nothing is validated.
\* `go farm.startWalker(walkerRate)` (farm.go:88) leaves a goroutine about to
\* enter startWalker.
New(n, q, rate, wc, contents) ==
    /\ ~constructed
    /\ constructed' = TRUE
    /\ clusters' = n
    /\ writeQuorum' = q
    /\ walkerRate' = rate
    /\ fWalkCompleted' = wc
    /\ ckeys' = contents
    /\ dpc' = "start"
    /\ UNCHANGED <<wvars, uvars, svars, hvars, callerReady, ppc, perm, stream, pkey,
                   anythingSent, walkCompleted, batchSize, keys>>

\* ---------------------------------------------------------------- Select

\* MaxInt (farm.go:19), int(^uint(0) >> 1), at the width of a 32-bit build;
\* the walker only passes it on as the limit of its Selects.
MaxInt == 2147483647

\* What a read strategy may hand back: a failed read, or the members found.
StrategyResults ==
    { [result |-> <<>>, err |-> "read failed"],
      [result |-> ("k1" :> <<[Key |-> "k1", Score |-> 1, Member |-> "m"]>>),
       err |-> NoErr] }

\* No Select was made.
NoSelect == [made |-> FALSE]

\* farm.go:114-115, mutated: the read strategy runs before the rate police
\* is told.
selectCallsReadFirst(ks, offset, limit) ==
    << [op |-> "readStrategy", keys |-> ks, offset |-> offset, limit |-> limit],
       [op |-> "Report", n |-> Len(ks)] >>

\* The calls Select makes for a non-empty key list, in order (farm.go:114-115).
selectCalls(ks, offset, limit) ==
    << [op |-> "Report", n |-> Len(ks)],
       [op |-> "readStrategy", keys |-> ks, offset |-> offset, limit |-> limit] >>

\* Farm.Select (farm.go:109-116): its arguments, the calls it makes and what
\* it returns when the read strategy hands back sres.
Select(ks, offset, limit, sres) ==
    IF Len(ks) <= 0
    THEN [made |-> TRUE, keys |-> ks, offset |-> offset, limit |-> limit,
          strategy |-> sres, calls |-> <<>>,
          ret |-> [result |-> <<>>, err |-> NoErr]]
    ELSE [made |-> TRUE, keys |-> ks, offset |-> offset, limit |-> limit,
          strategy |-> sres, calls |-> selectCalls(ks, offset, limit),
          ret |-> sres]

\* The sum of the arguments of the ratePolice.Report calls among calls.
RECURSIVE Reported(_)
Reported(calls) ==
    IF Len(calls) = 0 THEN 0
    ELSE (IF calls[1].op = "Report" THEN calls[1].n ELSE 0)
         + Reported(Tail(calls))

\* The key lists, offsets and limits clients call Select with.
ClientKeys == {<<>>, <<"k1">>, <<"k2", "k1">>}
ClientOffsets == {0, 1}
ClientLimits == {10}

\* A client calls f.Select(ks, offset, limit) and the call returns.
ClientSelect(ks, offset, limit, sres) ==
    /\ constructed
    /\ csel' = Select(ks, offset, limit, sres)
    /\ unreported' = unreported + Len(ks) - Reported(csel'.calls)
    /\ UNCHANGED <<fvars, wvars, uvars, kvars, hvars, wsel, grant, inFlight,
                   credit>>

InitSelect ==
    /\ csel = NoSelect
    /\ wsel = NoSelect
    /\ grant = 0
    /\ unreported = 0
    /\ inFlight = 0
    /\ credit = 0

\* ---------------------------------------------------------------- walker

\* The largest batch the rate police grants short of the walker's own cap.
MaxGrant == 2

\* Completed sweeps without a completion sent to the caller are counted up
\* to this many.
MaxCredit == 2

\* The farms a walker is started on: up to two clusters, each holding any of
\* the keys.
WalkerFarms == UNION {[1..n -> SUBSET Keys] : n \in {0, 1, 2}}

\* farm.go:171-172: the batch is capped at BatchCapFactor * walkerRate.
BatchCapFactor == 10

Range(f) == {f[i] : i \in DOMAIN f}

\* rand.Perm(n), as sequences of the clusters 1..n
Perms(n) == {p \in [1..n -> 1..n] : Range(p) = 1..n}

\* The keys present in some cluster of the farm.
AllKeys == UNION {ckeys[c] : c \in DOMAIN ckeys}

\* farm.go:142, mutated: the last cluster is left out of every sweep.
sweepOrdersSkipLast == Perms(IF clusters > 0 THEN clusters - 1 ELSE 0)

\* farm.go:142: `range rand.Perm(len(f.clusters))`
sweepOrders == Perms(clusters)

\* startWalker's entry (farm.go:129-160): it returns when walkerRate is 0;
\* otherwise it makes its two channels, starts the key producer and enters
\* the driver loop.
startWalker ==
    /\ dpc = "start"
    /\ IF walkerRate = 0
       THEN /\ dpc' = "exited"
            /\ UNCHANGED <<ppc, walkCompleted>>
       ELSE /\ dpc' = "request"
            /\ ppc' = "sweep"
            /\ walkCompleted' = 0
    /\ UNCHANGED <<fvars, wvars, uvars, svars, hvars, walkerRate, fWalkCompleted, ckeys,
                   callerReady, perm, stream, pkey, anythingSent, batchSize,
                   keys>>

\* The producer's next step once rand.Perm is drawn or a Keys() channel is
\* closed (farm.go:142-143): the permutation is exhausted, or the next
\* cluster's Keys() is opened.
nextCluster(p) ==
    IF p = <<>>
    THEN /\ ppc' = "completed"
         /\ perm' = p
         /\ UNCHANGED <<stream, keysOpened>>
    ELSE /\ ppc' = "keys"
         /\ perm' = Tail(p)
         /\ stream' = ckeys[Head(p)]
         /\ keysOpened' = TRUE

\* The producer starts a sweep (farm.go:141-143).
ProducerSweep ==
    /\ ppc = "sweep"
    /\ anythingSent' = FALSE
    /\ \E p \in sweepOrders : nextCluster(p)
    /\ emitted' = {}
    /\ pending' = {}
    /\ UNCHANGED <<fvars, wvars, uvars, svars, walkerRate, fWalkCompleted, ckeys,
                   callerReady, pkey, walkCompleted, dpc, batchSize,
                   keys, sigMissed, forwarded, fwdMissed,
                   requested, walkerSelects, owed>>

\* The producer takes the next key of the Keys() channel (farm.go:143), in
\* whatever order the cluster delivers, or finds the channel closed and turns
\* to the next cluster.
ProducerKeys ==
    /\ ppc = "keys"
    /\ IF stream = {}
       THEN /\ nextCluster(perm)
            /\ UNCHANGED pkey
       ELSE /\ \E k \in stream :
                  /\ pkey' = k
                  /\ stream' = stream \ {k}
            /\ ppc' = "send"
            /\ UNCHANGED <<perm, keysOpened>>
    /\ UNCHANGED <<fvars, wvars, uvars, svars, walkerRate, fWalkCompleted, ckeys,
                   callerReady, anythingSent, walkCompleted, dpc,
                   batchSize, keys, emitted, pending, sigMissed, forwarded,
                   fwdMissed, requested, walkerSelects, owed>>

\* farm.go:132, mutated: keyChannel has a buffer, and the producer's send
\* completes whether or not the driver is receiving.
KeyHandoffBuffered ==
    /\ ppc = "send"
    /\ emitted' = emitted \cup {pkey}
    /\ pending' = pending \cup {pkey}
    /\ anythingSent' = TRUE
    /\ ppc' = "keys"
    /\ inFlight' = inFlight + 1
    /\ IF dpc = "collect"
       THEN /\ keys' = Append(keys, pkey)
            /\ batchSize' = batchSize - 1
            /\ dpc' = IF batchSize - 1 > 0 THEN "collect" ELSE "select"
       ELSE UNCHANGED <<keys, batchSize, dpc>>
    /\ UNCHANGED <<fvars, wvars, uvars, walkerRate, fWalkCompleted, ckeys,
                   callerReady, perm, stream, pkey, walkCompleted, sigMissed,
                   forwarded, fwdMissed, keysOpened, requested, walkerSelects,
                   owed, csel, wsel, grant, unreported, credit>>

\* keyChannel is unbuffered: the producer's send (farm.go:144-145) and the
\* driver's receive (farm.go:175-176) happen together.
KeyHandoff ==
    /\ ppc = "send"
    /\ dpc = "collect"
    /\ keys' = Append(keys, pkey)
    /\ emitted' = emitted \cup {pkey}
    /\ pending' = pending \cup {pkey}
    /\ batchSize' = batchSize - 1
    /\ dpc' = IF batchSize - 1 > 0 THEN "collect" ELSE "select"
    /\ anythingSent' = TRUE
    /\ ppc' = "keys"
    /\ inFlight' = inFlight + 1
    /\ UNCHANGED <<fvars, wvars, uvars, walkerRate, fWalkCompleted, ckeys,
                   callerReady, perm, stream, pkey, walkCompleted, sigMissed,
                   forwarded, fwdMissed, keysOpened, requested, walkerSelects,
                   owed, csel, wsel, grant, unreported, credit>>

\* The end of a sweep (farm.go:148-158): the completion is put into
\* walkCompleted unless it is full, and an empty sweep is followed by a sleep.
ProducerCompleted ==
    /\ ppc = "completed"
    /\ IF walkCompleted < 1
       THEN /\ walkCompleted' = walkCompleted + 1
            /\ sigMissed' = [skipped |-> AllKeys \ emitted, pending |-> pending]
       ELSE UNCHANGED <<walkCompleted, sigMissed>>
    /\ owed' = TRUE
    /\ credit' = IF credit < MaxCredit THEN credit + 1 ELSE credit
    /\ ppc' = IF ~anythingSent THEN "sleep" ELSE "sweep"
    /\ UNCHANGED <<fvars, wvars, uvars, walkerRate, fWalkCompleted, ckeys,
                   callerReady, perm, stream, pkey, anythingSent, dpc,
                   batchSize, keys, emitted, pending, forwarded, fwdMissed,
                   keysOpened, requested, walkerSelects, csel, wsel, grant,
                   unreported, inFlight>>

\* time.Sleep(time.Second) returns (farm.go:157).
ProducerWake ==
    /\ ppc = "sleep"
    /\ ppc' = "sweep"
    /\ UNCHANGED <<fvars, wvars, uvars, svars, hvars, walkerRate, fWalkCompleted, ckeys,
                   callerReady, perm, stream, pkey, anythingSent,
                   walkCompleted, dpc, batchSize, keys>>

\* What ratePolice.Request(rate) may return: nothing, small batches, and more
\* than the walker accepts.
Grants(rate) == (0..MaxGrant) \cup {BatchCapFactor * rate + 1}

\* farm.go:171-173, mutated: the safeguard is missing.
capBatchUncapped(granted, rate) == granted

\* farm.go:171-173
capBatch(granted, rate) ==
    IF granted > BatchCapFactor * rate THEN BatchCapFactor * rate ELSE granted

\* The driver asks the rate police (farm.go:163-174).
DriverRequest(granted) ==
    /\ dpc = "request"
    /\ requested' = TRUE
    /\ grant' = granted
    /\ IF granted <= 0
       THEN /\ dpc' = "sleep"
            /\ UNCHANGED <<batchSize, keys>>
       ELSE /\ batchSize' = capBatch(granted, walkerRate)
            /\ keys' = <<>>
            /\ dpc' = IF capBatch(granted, walkerRate) > 0
                      THEN "collect" ELSE "select"
    /\ UNCHANGED <<fvars, wvars, uvars, walkerRate, fWalkCompleted, ckeys,
                   callerReady, ppc, perm, stream, pkey, anythingSent,
                   walkCompleted, emitted, pending, sigMissed, forwarded,
                   fwdMissed, keysOpened, walkerSelects, owed, csel, wsel,
                   unreported, inFlight, credit>>

\* time.Sleep(time.Second) returns (farm.go:167-168).
DriverWake ==
    /\ dpc = "sleep"
    /\ dpc' = "request"
    /\ grant' = 0
    /\ UNCHANGED <<fvars, wvars, uvars, hvars, walkerRate, fWalkCompleted, ckeys,
                   callerReady, ppc, perm, stream, pkey, anythingSent,
                   walkCompleted, batchSize, keys, csel, wsel, unreported,
                   inFlight, credit>>

\* Farm.Select (farm.go:109-116): the keys that reach the read strategy;
\* none when the key list is empty.
SelectReads(ks) == IF Len(ks) <= 0 THEN {} ELSE Range(ks)

\* farm.go:181, mutated: the driver reads through the read strategy itself,
\* past Farm.Select and the rate police.
DriverSelectUnreported(sres) ==
    /\ dpc = "select"
    /\ walkerSelects' = TRUE
    /\ wsel' = [Select(keys, 0, MaxInt, sres) EXCEPT
                  !.calls = SelectSeq(@, LAMBDA call : call.op # "Report")]
    /\ unreported' = unreported + Len(keys) - Reported(wsel'.calls)
    /\ inFlight' = inFlight - Len(keys)
    /\ pending' = pending \ SelectReads(keys)
    /\ sigMissed' = [sigMissed EXCEPT !.pending = @ \ SelectReads(keys)]
    /\ dpc' = "forward"
    /\ UNCHANGED <<fvars, wvars, uvars, walkerRate, fWalkCompleted, ckeys,
                   callerReady, ppc, perm, stream, pkey, anythingSent,
                   walkCompleted, batchSize, keys, emitted, forwarded,
                   fwdMissed, keysOpened, requested, owed, csel, grant,
                   credit>>

\* The driver calls f.Select(keys, 0, MaxInt) (farm.go:181).
DriverSelect(sres) ==
    /\ dpc = "select"
    /\ walkerSelects' = TRUE
    /\ wsel' = Select(keys, 0, MaxInt, sres)
    /\ unreported' = unreported + Len(keys) - Reported(wsel'.calls)
    /\ inFlight' = inFlight - Len(keys)
    /\ pending' = pending \ SelectReads(keys)
    /\ sigMissed' = [sigMissed EXCEPT !.pending = @ \ SelectReads(keys)]
    /\ dpc' = "forward"
    /\ UNCHANGED <<fvars, wvars, uvars, walkerRate, fWalkCompleted, ckeys,
                   callerReady, ppc, perm, stream, pkey, anythingSent,
                   walkCompleted, batchSize, keys, emitted, forwarded,
                   fwdMissed, keysOpened, requested, owed, csel, grant,
                   credit>>

\* farm.go:187, mutated: the driver does not look into walkCompleted.
completionAssumed(buffered) == TRUE

\* `case <-walkCompleted` of the non-blocking select (farm.go:186-187): a
\* completion is buffered.
completionBuffered(buffered) == buffered > 0

\* The driver forwards a completion (farm.go:185-194): with a caller's
\* channel, a buffered completion is taken and sent on if the caller is ready,
\* dropped otherwise. The iteration ends and its keys go out of scope.
DriverForward ==
    /\ dpc = "forward"
    /\ dpc' = "request"
    /\ IF fWalkCompleted # "nil" /\ completionBuffered(walkCompleted)
       THEN /\ walkCompleted' = walkCompleted - 1
            /\ IF callerReady
               THEN /\ forwarded' = TRUE
                    /\ fwdMissed' = sigMissed.skipped \cup sigMissed.pending
                    /\ owed' = FALSE
                    /\ credit' = credit - 1
               ELSE UNCHANGED <<forwarded, fwdMissed, owed, credit>>
       ELSE UNCHANGED <<walkCompleted, forwarded, fwdMissed, owed, credit>>
    /\ keys' = <<>>
    /\ wsel' = NoSelect
    /\ grant' = 0
    /\ UNCHANGED <<fvars, wvars, uvars, walkerRate, fWalkCompleted, ckeys,
                   callerReady, ppc, perm, stream, pkey, anythingSent,
                   batchSize, emitted, pending, sigMissed, keysOpened,
                   requested, walkerSelects, csel, unreported, inFlight>>

\* The caller starts or stops waiting on its channel.
CallerToggle ==
    /\ constructed
    /\ fWalkCompleted # "nil"
    /\ callerReady' = ~callerReady
    /\ UNCHANGED <<fvars, wvars, uvars, svars, hvars, walkerRate, fWalkCompleted, ckeys,
                   ppc, perm, stream, pkey, anythingSent, walkCompleted, dpc,
                   batchSize, keys>>

InitWalker ==
    /\ walkerRate = 0
    /\ fWalkCompleted = "nil"
    /\ ckeys = <<>>
    /\ callerReady \in BOOLEAN
    /\ ppc = "none"
    /\ perm = <<>>
    /\ stream = {}
    /\ pkey = "k1"
    /\ anythingSent = FALSE
    /\ walkCompleted = 0
    /\ dpc = "none"
    /\ batchSize = 0
    /\ keys = <<>>
    /\ emitted = {}
    /\ pending = {}
    /\ sigMissed = [skipped |-> {}, pending |-> {}]
    /\ forwarded = FALSE
    /\ fwdMissed = {}
    /\ keysOpened = FALSE
    /\ requested = FALSE
    /\ walkerSelects = FALSE
    /\ owed = FALSE

\* ----------------------------------------------------------------- write

\* farm.go:225, mutated: one success short of need passes for a quorum.
haveQuorumOffByOne(g, errs, n) == g - Len(errs) + 1 >= n

\* The gather loop's exit, mutated: the loop is also left once the clusters
\* still to answer cannot make up a quorum.
gatherDoneGivesUp(g, errs, n, cap) ==
    \/ g - Len(errs) >= n
    \/ g >= cap
    \/ cap - Len(errs) < n

\* haveQuorum (farm.go:225), mutated: every response counts as a success.
haveQuorumCountsErrors(g, errs, n) == g >= n

\* haveQuorum (farm.go:225)
haveQuorum(g, errs, n) == g - Len(errs) >= n

\* farm.go:228-230, mutated: only the first error message is kept.
collectFirstOnly(errs, err) ==
    IF err # NoErr /\ errs = <<>> THEN <<err>> ELSE errs

\* farm.go:228-230: a non-nil error's message is appended.
collect(errs, err) == IF err # NoErr THEN Append(errs, err) ELSE errs

\* The gather loop's exit, mutated: no break on quorum, all responses awaited.
gatherDoneWaitsForAll(g, errs, n, cap) == g >= cap

\* The gather loop (farm.go:226-235) is left after the response just consumed
\* when quorum is reached (break) or the loop counter reaches cap(errChan).
gatherDone(g, errs, n, cap) == haveQuorum(g, errs, n) \/ g >= cap

\* farm.go:216, mutated: errChan is buffered for a quorum of responses only.
errChanCapQuorum == writeQuorum

\* cap(errChan) of `make(chan error, len(f.clusters))` (farm.go:216)
errChanCap == clusters

\* Farm.write, farm.go:203-224: the empty batch returns nil at once; otherwise
\* the call is instrumented, one goroutine per cluster is started and the
\* gather loop is entered (or skipped when cap(errChan) = 0).
write(batch, act) ==
    /\ constructed
    /\ wpc = "idle"
    /\ tuples' = batch
    /\ action' = act
    /\ IF Len(batch) <= 0
       THEN /\ wpc' = "returned"
            /\ result' = "nil"
            /\ UNCHANGED <<scatter, errChan, errors, got, need, instr, arrived,
                           invoked>>
       ELSE /\ instr' = [instr EXCEPT !.call = @ + 1,
                                      !.recordCount = @ + Len(batch)]
            /\ scatter' = [c \in 1..clusters |-> [pc |-> "running", err |-> NoErr]]
            /\ invoked' = [c \in 1..clusters |-> 0]
            /\ errChan' = <<>>
            /\ errors' = <<>>
            /\ got' = 0
            /\ need' = writeQuorum
            /\ wpc' = IF 0 < errChanCap THEN "gather" ELSE "report"
            /\ UNCHANGED <<result, arrived>>
    /\ UNCHANGED <<fvars, uvars, svars, kvars, hvars, store>>

\* Insert (farm.go:95-101)
Insert(batch) == write(batch, "Insert")

\* Delete (farm.go:120-126)
Delete(batch) == write(batch, "Delete")

\* The scatter goroutine (farm.go:219), mutated: a failed action is tried
\* again.
ClusterActionRetries(c, ok) ==
    /\ wpc # "idle"
    /\ c \in DOMAIN scatter
    /\ scatter[c].pc = "running"
    /\ scatter' = [scatter EXCEPT ![c] =
                     IF ok THEN [pc |-> "acted", err |-> NoErr]
                     ELSE [pc |-> "running", err |-> ErrText(c)]]
    /\ invoked' = [invoked EXCEPT ![c] = @ + 1]
    /\ store' = IF ok THEN store \cup {c} ELSE store
    /\ UNCHANGED <<fvars, uvars, svars, kvars, hvars, wpc, tuples, action,
                   errChan, errors, got, need, result, instr, arrived>>

\* The scatter goroutine evaluates action(c, tuples) (farm.go:219): the
\* cluster applies the batch and returns nil, or fails with its error.
ClusterAction(c, ok) ==
    /\ wpc # "idle"
    /\ c \in DOMAIN scatter
    /\ scatter[c].pc = "running"
    /\ scatter' = [scatter EXCEPT ![c] =
                     [pc |-> "acted", err |-> IF ok THEN NoErr ELSE ErrText(c)]]
    /\ invoked' = [invoked EXCEPT ![c] = @ + 1]
    /\ store' = IF ok THEN store \cup {c} ELSE store
    /\ UNCHANGED <<fvars, uvars, svars, kvars, hvars, wpc, tuples, action,
                   errChan, errors, got, need, result, instr, arrived>>

\* The scatter goroutine sends the action's result to errChan (farm.go:219);
\* the send blocks while the channel's buffer, of len(f.clusters), is full.
ClusterSend(c) ==
    /\ c \in DOMAIN scatter
    /\ scatter[c].pc = "acted"
    /\ Len(errChan) < errChanCap
    /\ errChan' = Append(errChan, scatter[c].err)
    /\ scatter' = [scatter EXCEPT ![c].pc = "sent"]
    /\ arrived' = Append(arrived, c)
    /\ UNCHANGED <<fvars, uvars, svars, kvars, hvars, wpc, tuples, action,
                   errors, got, need, result, instr, invoked, store>>

\* One iteration of the gather loop (farm.go:226-235).
Gather ==
    /\ wpc = "gather"
    /\ errChan # <<>>
    /\ LET err == Head(errChan)
           errs == collect(errors, err)
       IN /\ errChan' = Tail(errChan)
          /\ errors' = errs
          /\ got' = got + 1
          /\ wpc' = IF gatherDone(got + 1, errs, need, errChanCap)
                    THEN "report" ELSE "gather"
    /\ UNCHANGED <<fvars, uvars, svars, kvars, hvars, tuples, action, scatter,
                   need, result, instr, arrived, invoked, store>>

\* Report (farm.go:237-242), mutated: a quorum failure undoes the batch on
\* the clusters that applied it.
ReportRollsBack ==
    /\ wpc = "report"
    /\ wpc' = "returned"
    /\ IF ~haveQuorum(got, errors, need)
       THEN /\ result' = QuorumError(errors)
            /\ store' = {}
            /\ instr' = [instr EXCEPT !.quorumFailure = @ + 1,
                                      !.callDuration = @ + 1,
                                      !.recordDuration = @ + 1]
       ELSE /\ result' = "nil"
            /\ store' = store
            /\ instr' = [instr EXCEPT !.callDuration = @ + 1,
                                      !.recordDuration = @ + 1]
    /\ UNCHANGED <<fvars, uvars, svars, kvars, hvars, tuples, action, scatter,
                   errChan, errors, got, need, arrived, invoked>>

\* Report (farm.go:237-242) and the deferred durations (farm.go:209-213).
Report ==
    /\ wpc = "report"
    /\ wpc' = "returned"
    /\ IF ~haveQuorum(got, errors, need)
       THEN /\ result' = QuorumError(errors)
            /\ instr' = [instr EXCEPT !.quorumFailure = @ + 1,
                                      !.callDuration = @ + 1,
                                      !.recordDuration = @ + 1]
       ELSE /\ result' = "nil"
            /\ instr' = [instr EXCEPT !.callDuration = @ + 1,
                                      !.recordDuration = @ + 1]
    /\ UNCHANGED <<fvars, uvars, svars, kvars, hvars, tuples, action, scatter,
                   errChan, errors, got, need, arrived, invoked, store>>

\* -------------------------------------------------- the write specification

\* The writeQuorum values New is called with for n clusters.
Quorums(n) == (0 - 1)..(n + 1)

InitFarm ==
    /\ constructed = FALSE
    /\ clusters = 0
    /\ writeQuorum = 0

InitWrite ==
    /\ invoked = <<>>
    /\ store = {}
    /\ wpc = "idle"
    /\ tuples = <<>>
    /\ action = "Insert"
    /\ scatter = <<>>
    /\ errChan = <<>>
    /\ errors = <<>>
    /\ got = 0
    /\ need = 0
    /\ result = "pending"
    /\ instr = NoInstr
    /\ arrived = <<>>

InitUnion ==
    /\ tupleSets = <<>>
    /\ udone = FALSE
    /\ union = {}
    /\ difference = {}

Init == InitFarm /\ InitWrite /\ InitUnion /\ InitWalker /\ InitSelect

NextWrite ==
    \/ \E n \in 0..MaxClusters : \E q \in Quorums(n) :
          New(n, q, 0, "nil", [c \in 1..n |-> {}])
    \/ startWalker
    \/ \E batch \in Batches : Insert(batch)
    \/ \E batch \in Batches : Delete(batch)
    \/ \E c \in 1..MaxClusters : \E ok \in BOOLEAN : ClusterAction(c, ok)
    \/ \E c \in 1..MaxClusters : ClusterSend(c)
    \/ Gather
    \/ Report

SpecWrite == Init /\ [][NextWrite]_vars

\* ------------------------------------------------------- unionDifference

\* The most tupleSets unionDifference is called with.
MaxSets == 3

\* A Go map as a function on the keys it holds.
Put(m, k, v) == [x \in DOMAIN m \cup {k} |-> IF x = k THEN v ELSE m[x]]

\* farm.go:257, mutated: the lower score replaces the stored one.
betterScoreLower(scores, km, score) ==
    km \notin DOMAIN scores \/ score < scores[km]

\* farm.go:257: `score, ok := scores[km]; !ok || tuple.Score > score`
betterScore(scores, km, score) ==
    km \notin DOMAIN scores \/ score > scores[km]

\* farm.go:261, mutated: agreement is counted per key-member, scores ignored.
countKeyIgnoresScore(tuple) == keyMember(tuple)

\* farm.go:261: counts is keyed by the whole common.KeyScoreMember.
countKey(tuple) == tuple

\* The body of the inner loop, farm.go:255-261.
scanTuple(st, tuple) ==
    LET km == keyMember(tuple)
        ck == countKey(tuple)
    IN [scores |-> IF betterScore(st.scores, km, tuple.Score)
                   THEN Put(st.scores, km, tuple.Score)
                   ELSE st.scores,
        counts |-> Put(st.counts, ck,
                       IF ck \in DOMAIN st.counts THEN st.counts[ck] + 1 ELSE 1)]

\* `for tuple := range tupleSet` (farm.go:254): the map is walked in some
\* order; scanTuple's effect does not depend on it.
RECURSIVE scanSet(_, _)
scanSet(st, set) ==
    IF set = {} THEN st
    ELSE LET tuple == CHOOSE t \in set : TRUE
         IN scanSet(scanTuple(st, tuple), set \ {tuple})

\* `for _, tupleSet := range tupleSets` (farm.go:253)
RECURSIVE scanSets(_, _)
scanSets(st, sets) ==
    IF sets = <<>> THEN st
    ELSE scanSets(scanSet(st, Head(sets)), Tail(sets))

\* unionDifference (farm.go:249-282)
unionDifference(sets) ==
    LET expectedCount == Len(sets)
        st == scanSets([scores |-> <<>>, counts |-> <<>>], sets)
    IN [union |-> {[Key |-> km.Key, Score |-> st.scores[km], Member |-> km.Member] :
                      km \in DOMAIN st.scores},
        difference |-> {keyMember(ksm) :
                          ksm \in {t \in DOMAIN st.counts :
                                      st.counts[t] < expectedCount}}]

\* A caller hands its tupleSets to unionDifference and takes the results.
CallUnionDifference ==
    /\ ~udone
    /\ udone' = TRUE
    /\ LET r == unionDifference(tupleSets)
       IN /\ union' = r.union
          /\ difference' = r.difference
    /\ UNCHANGED <<fvars, wvars, svars, kvars, hvars, tupleSets>>

RECURSIVE SeqsUpTo(_, _)
SeqsUpTo(S, n) ==
    IF n = 0 THEN {<<>>}
    ELSE LET shorter == SeqsUpTo(S, n - 1)
         IN shorter \cup {Append(q, x) : q \in shorter, x \in S}

\* Any list of at most MaxSets tupleSets is an argument.
InitUnionArgs ==
    /\ tupleSets \in SeqsUpTo(SUBSET KSM, MaxSets)
    /\ udone = FALSE
    /\ union = {}
    /\ difference = {}

InitUnionSpec ==
    InitFarm /\ InitWrite /\ InitUnionArgs /\ InitWalker /\ InitSelect

NextUnion == CallUnionDifference

SpecUnion == InitUnionSpec /\ [][NextUnion]_vars

\* ------------------------------------------------- the walker specification

\* The walkerRate values New is called with.
Rates == {0 - 1, 0, 1}

NextWalker ==
    \/ \E contents \in WalkerFarms : \E rate \in Rates : \E wc \in {"nil", "chan"} :
          New(Len(contents), 1, rate, wc, contents)
    \/ startWalker
    \/ ProducerSweep
    \/ ProducerKeys
    \/ KeyHandoff
    \/ ProducerCompleted
    \/ ProducerWake
    \/ \E granted \in Grants(walkerRate) : DriverRequest(granted)
    \/ DriverWake
    \/ \E sres \in StrategyResults : DriverSelect(sres)
    \/ DriverForward
    \/ CallerToggle

SpecWalker == Init /\ [][NextWalker]_vars

\* Every goroutine that can take a step eventually does; the environment (New,
\* the caller of the completion channel) is under no obligation.
WalkerFairness ==
    /\ WF_vars(startWalker)
    /\ WF_vars(ProducerSweep)
    /\ WF_vars(ProducerKeys)
    /\ WF_vars(KeyHandoff)
    /\ WF_vars(ProducerCompleted)
    /\ WF_vars(ProducerWake)
    /\ WF_vars(\E granted \in Grants(walkerRate) : DriverRequest(granted))
    /\ WF_vars(DriverWake)
    /\ WF_vars(\E sres \in StrategyResults : DriverSelect(sres))
    /\ WF_vars(DriverForward)

FairWalker == SpecWalker /\ WalkerFairness

\* ------------------------------------------------- the Select specification

\* The farms clients read while the walker runs: one cluster, with or without
\* a key.
SelectFarms == [1..1 -> SUBSET {"k1"}]

\* Clients call Select on a farm whose walker is off or running.
NextSelect ==
    \/ \E contents \in SelectFarms : \E rate \in Rates :
          New(Len(contents), 1, rate, "nil", contents)
    \/ startWalker
    \/ ProducerSweep
    \/ ProducerKeys
    \/ KeyHandoff
    \/ ProducerCompleted
    \/ ProducerWake
    \/ \E granted \in Grants(walkerRate) : DriverRequest(granted)
    \/ DriverWake
    \/ \E sres \in StrategyResults : DriverSelect(sres)
    \/ DriverForward
    \/ \E ks \in ClientKeys : \E offset \in ClientOffsets :
          \E limit \in ClientLimits : \E sres \in StrategyResults :
             ClientSelect(ks, offset, limit, sres)

SpecSelect == Init /\ [][NextSelect]_vars

\* --------------------------------------------------- claims on the write path

\* Clusters whose action has returned nil / an error.
Succeeded == {c \in DOMAIN scatter : scatter[c].pc # "running" /\ scatter[c].err = NoErr}
Failed == {c \in DOMAIN scatter : scatter[c].pc # "running" /\ scatter[c].err # NoErr}

AllResponded == \A c \in 1..clusters : c \in DOMAIN scatter /\ scatter[c].pc = "sent"

ValidQuorum == 1 <= writeQuorum /\ writeQuorum <= clusters

Returned == wpc = "returned" /\ Len(tuples) > 0

IsQuorumFailure(r) == Len(r) >= 11 /\ SubSeq(r, 1, 11) = "no quorum ("

Contains(s, sub) ==
    \E i \in 1..(Len(s) - Len(sub) + 1) : SubSeq(s, i, i + Len(sub) - 1) = sub

\* C1: with 1 <= Q <= N, a non-empty batch and all N clusters having
\* responded, write returns nil if at least Q clusters succeeded and a
\* quorum-failure error if fewer than Q did.
C1_QuorumDecides ==
    (Returned /\ ValidQuorum /\ AllResponded) =>
        IF Cardinality(Succeeded) >= writeQuorum
        THEN result = "nil"
        ELSE IsQuorumFailure(result)

C1_Witness ==
    /\ Returned /\ ValidQuorum /\ AllResponded
    /\ writeQuorum >= 2
    /\ Cardinality(Succeeded) = writeQuorum - 1
    /\ IsQuorumFailure(result)

\* C2: with 1 <= Q <= N, write never stays in the gather loop once Q successes
\* have been consumed; it returns nil having consumed exactly Q successes,
\* whatever the outstanding clusters do afterwards (run on, or send errors
\* nobody receives), and the result stays nil.
C2_ReturnsOnQuorum ==
    (ValidQuorum /\ wpc # "idle" /\ Len(tuples) > 0) =>
        /\ wpc = "gather" => got - Len(errors) < need
        /\ (wpc \in {"report", "returned"} /\ got - Len(errors) >= need) =>
              /\ got - Len(errors) = need
              /\ wpc = "returned" => result = "nil"

C2_Witness ==
    /\ Returned /\ ValidQuorum /\ result = "nil"
    /\ \E c \in DOMAIN scatter : scatter[c].pc = "running"
    /\ \E c \in DOMAIN scatter : scatter[c].pc = "sent" /\ scatter[c].err # NoErr
    /\ errChan # <<>> /\ Head(errChan) # NoErr
    /\ errors = <<>>

\* The failed clusters in the order their responses arrived.
FailedInArrivalOrder == SelectSeq(arrived, LAMBDA c : scatter[c].err # NoErr)

\* C3: a quorum-failure error carries the message of every cluster that
\* failed, all N - successes of them, joined in arrival order.
C3_ErrorListsAllFailures ==
    (Returned /\ result # "nil") =>
        /\ AllResponded
        /\ \A c \in Failed : Contains(result, ErrText(c))
        /\ Len(FailedInArrivalOrder) = clusters - Cardinality(Succeeded)
        /\ result = QuorumError([i \in 1..Len(FailedInArrivalOrder) |->
                                    ErrText(FailedInArrivalOrder[i])])

C3_Witness ==
    /\ Returned /\ IsQuorumFailure(result)
    /\ clusters = 3 /\ writeQuorum = 2
    /\ Cardinality(Failed) = 2 /\ Cardinality(Succeeded) = 1

\* C4: New rejects a writeQuorum outside [1, len(clusters)]: no Farm exists
\* with such a quorum.
C4_BadQuorumRejected == constructed => ValidQuorum

\* C5: an Insert succeeds as long as more than half of the clusters succeed,
\* whatever the write quorum (stated for the quorums C4 allows, so that the
\* failure does not rest on New accepting a bad quorum).
C5_MajoritySuffices ==
    (Returned /\ action = "Insert" /\ ValidQuorum
        /\ 2 * Cardinality(Succeeded) > clusters) => result = "nil"

\* ----------------------------------------------- claims on unionDifference

KMs == {keyMember(t) : t \in KSM}

\* The tuples of input i that hold key-member km.
Holding(i, km) == {t \in tupleSets[i] : keyMember(t) = km}

\* The inputs in which km is present, with whatever score.
PresentIn(km) == {i \in 1..Len(tupleSets) : Holding(i, km) # {}}

MaxOf(S) == CHOOSE x \in S : \A y \in S : y <= x

\* C6: the union holds exactly one KSM for every key-member present in some
\* input, none for any other key-member, and its score is the highest score
\* the key-member has in any input.
C6_UnionIsBestScore ==
    udone =>
        \A km \in KMs :
            LET inUnion == {u \in union : keyMember(u) = km}
                seen == UNION {Holding(i, km) : i \in 1..Len(tupleSets)}
            IN IF seen = {}
               THEN inUnion = {}
               ELSE inUnion = {[Key |-> km.Key,
                                Score |-> MaxOf({t.Score : t \in seen}),
                                Member |-> km.Member]}

C6_Witness ==
    /\ udone
    /\ \E km \in KMs : \E i, j \in 1..Len(tupleSets) :
          /\ i # j
          /\ \E t \in Holding(i, km) : \E u \in Holding(j, km) :
                /\ t.Score < u.Score
                /\ u \in union
                /\ t \notin union
    /\ \E km \in KMs : PresentIn(km) = {}

\* C7, as claimed: the difference holds exactly the key-members present in
\* fewer than N of the N inputs; scores play no part.
C7_DiffIsPresenceOnly ==
    udone =>
        difference = {km \in KMs : PresentIn(km) # {}
                                    /\ Cardinality(PresentIn(km)) < Len(tupleSets)}

\* The inputs that hold the tuple t.
InputsWith(t) == {i \in 1..Len(tupleSets) : t \in tupleSets[i]}

\* C7, amended: the difference holds exactly the key-members of which some
\* (key, score, member) tuple is held by at least one but not by all N inputs;
\* a key-member all inputs hold is in the difference when they disagree on
\* its score.
C7_DiffIsImperfectAgreement ==
    udone =>
        difference = {km \in KMs :
                         \E t \in KSM :
                            /\ keyMember(t) = km
                            /\ InputsWith(t) # {}
                            /\ Cardinality(InputsWith(t)) < Len(tupleSets)}

C7_Witness ==
    /\ udone
    /\ Len(tupleSets) >= 2
    /\ \E km \in difference : PresentIn(km) = 1..Len(tupleSets)
    /\ \E km \in KMs : km \notin difference /\ PresentIn(km) = 1..Len(tupleSets)

\* ------------------------------------------------------ claims on the walker

\* C8: with walkerRate <= 0 the walker does not run: no Keys() stream is
\* opened, ratePolice.Request is not called, the walker calls no Select.
C8_NoWalkerUnlessPositiveRate ==
    (constructed /\ walkerRate <= 0) =>
        ~keysOpened /\ ~requested /\ ~walkerSelects

\* C9: when a sweep's completion is sent to the caller's channel, every key
\* present in some cluster was emitted in that sweep and has been passed to a
\* walker Select.
C9_SweepVisitsEveryKey == forwarded => fwdMissed = {}

C9_Witness ==
    /\ forwarded
    /\ fwdMissed = {}
    /\ clusters = 2
    /\ ckeys[1] # {} /\ ckeys[2] # {} /\ ckeys[1] # ckeys[2]

\* C10: with a running walker, a caller always ready on its channel and a rate
\* police that never throttles, every finished walk of the farm is followed
\* by true being sent to the caller's channel, whatever the farm holds.
C10_CompletionReachesCaller ==
    ([]callerReady /\ [](dpc # "sleep")) =>
        ((owed /\ walkerRate > 0 /\ fWalkCompleted # "nil") ~> ~owed)

\* ------------------------------------------------------- claims on Select

\* The positions in calls of the calls to op.
CallsOf(calls, op) == {i \in DOMAIN calls : calls[i].op = op}

\* The Select recorded in r did what Farm.Select is to do: for one key or
\* more, one Report of the number of keys, then one call of the read strategy
\* with the arguments as given, whose result is returned as it is; for no key,
\* no call at all, an empty map and no error.
SelectAsSpecified(r) ==
    r.made =>
        IF Len(r.keys) >= 1
        THEN /\ Cardinality(CallsOf(r.calls, "Report")) = 1
             /\ Cardinality(CallsOf(r.calls, "readStrategy")) = 1
             /\ \A i \in CallsOf(r.calls, "Report") :
                   /\ r.calls[i].n = Len(r.keys)
                   /\ \A j \in CallsOf(r.calls, "readStrategy") : i < j
             /\ \A j \in CallsOf(r.calls, "readStrategy") :
                   /\ r.calls[j].keys = r.keys
                   /\ r.calls[j].offset = r.offset
                   /\ r.calls[j].limit = r.limit
             /\ r.ret = r.strategy
        ELSE /\ r.calls = <<>>
             /\ r.ret = [result |-> <<>>, err |-> NoErr]

\* C11: every Select with k >= 1 keys calls ratePolice.Report(k) exactly once,
\* before the read strategy, and returns the strategy's result unchanged; a
\* Select with no key returns an empty map and no error and calls neither;
\* so the keys reported in all equal the keys passed to Select in all.
C11_SelectReportsThenReads ==
    /\ SelectAsSpecified(csel)
    /\ SelectAsSpecified(wsel)
    /\ unreported = 0

\* A client's Select of two keys returned the strategy's error while the
\* walker's own Select of the iteration had been made.
C11_Witness ==
    /\ csel.made /\ Len(csel.keys) = 2 /\ csel.ret.err = "read failed"
    /\ wsel.made /\ Len(wsel.keys) >= 1

\* ------------------------------------------- more claims on the write path

\* The number of times the action was invoked, over the clusters 1..n.
RECURSIVE Applications(_)
Applications(n) ==
    IF n = 0 THEN 0
    ELSE (IF n \in DOMAIN invoked THEN invoked[n] ELSE 0) + Applications(n - 1)

\* C12: when write returns success for a non-empty batch on a farm with
\* 1 <= Q <= N, at least Q distinct clusters have applied the batch; and in
\* every outcome the action was applied at most N times in all.
C12_SuccessMeansQReplicas ==
    /\ (Returned /\ result = "nil" /\ ValidQuorum)
          => Cardinality(store) >= writeQuorum
    /\ Applications(clusters) <= clusters

\* write returned success on three clusters with quorum 2 when exactly two
\* of them had applied the batch and the third had not acted yet.
C12_Witness ==
    /\ Returned /\ result = "nil"
    /\ clusters = 3 /\ writeQuorum = 2
    /\ Cardinality(store) = 2
    /\ \E c \in DOMAIN scatter : scatter[c].pc = "running"
    /\ Applications(clusters) = 2

\* C13: write never rolls back: every cluster whose action succeeded holds
\* the batch, before and after write returns, whatever write returns.
C13_NoRollback ==
    \A c \in DOMAIN scatter :
       (scatter[c].pc # "running" /\ scatter[c].err = NoErr) => c \in store

\* write returned a quorum failure on three clusters with quorum 2 where
\* only cluster 1 succeeded, and cluster 1 holds the batch.
C13_Witness ==
    /\ Returned /\ IsQuorumFailure(result)
    /\ clusters = 3 /\ writeQuorum = 2
    /\ Succeeded = {1} /\ Failed = {2, 3}
    /\ store = {1}

\* A success return with a cluster that does not hold the batch.
SuccessWithoutReplica ==
    /\ Returned /\ result = "nil" /\ ValidQuorum
    /\ \E c \in 1..clusters : scatter[c].pc # "running" /\ c \notin store

\* C14: write reports a quorum failure only after all N responses were
\* received: past the gather loop without a quorum, every cluster has sent
\* its response and write has consumed all of them.
C14_FailureOnlyAfterAllResponses ==
    (Len(tuples) > 0 /\ wpc \in {"report", "returned"}
       /\ got - Len(errors) < writeQuorum)
    => (got = clusters /\ AllResponded)

\* write is still gathering although the clusters yet to answer can no
\* longer make up the quorum.
C14_Witness ==
    /\ wpc = "gather" /\ ValidQuorum
    /\ got < clusters
    /\ clusters - Len(errors) < writeQuorum

\* C18: a scatter goroutine whose action has returned can always send its
\* result, whether or not write has returned, and errChan never holds more
\* than N results.
C18_LateRespondersNeverBlock ==
    /\ Len(errChan) <= clusters
    /\ \A c \in DOMAIN scatter :
          scatter[c].pc = "acted" => ENABLED ClusterSend(c)

\* write has returned on a quorum, one late result sits unread in errChan and
\* another goroutine is about to send.
C18_Witness ==
    /\ Returned /\ result = "nil"
    /\ Len(errChan) >= 1
    /\ \E c \in DOMAIN scatter : scatter[c].pc = "acted"
    /\ got + Len(errChan) < clusters

\* C19: in a write of a non-empty batch there is one scatter goroutine per
\* cluster; it invokes the action once, never again, and stays able to invoke
\* it after write has returned; in a write of an empty batch no action is
\* invoked, nothing is instrumented and nil is returned.
C19_ActionOncePerCluster ==
    /\ (wpc # "idle" /\ Len(tuples) > 0) =>
          /\ DOMAIN scatter = 1..clusters
          /\ \A c \in 1..clusters :
                IF scatter[c].pc = "running"
                THEN invoked[c] = 0 /\ ENABLED ClusterAction(c, TRUE)
                ELSE invoked[c] = 1
    /\ (wpc # "idle" /\ Len(tuples) = 0) =>
          /\ wpc = "returned" /\ result = "nil"
          /\ scatter = <<>> /\ invoked = <<>> /\ store = {}
          /\ instr = NoInstr

\* write returned on the first success of three clusters and the other two
\* were still invoked, once each, afterwards.
C19_Witness ==
    /\ Returned /\ clusters = 3 /\ writeQuorum = 1
    /\ got = 1
    /\ \A c \in 1..clusters : invoked[c] = 1

\* ------------------------------------------------ more claims on the walker

MinOf(a, b) == IF a < b THEN a ELSE b

\* C15: for walkerRate > 0, every Select of the walker driver has offset 0,
\* limit MaxInt and as many keys as the smaller of the grant and
\* 10 * walkerRate, hence at least 1 and at most 10 * walkerRate keys.
C15_WalkerSelectArguments ==
    (walkerRate > 0 /\ wsel.made) =>
        /\ wsel.offset = 0
        /\ wsel.limit = MaxInt
        /\ Len(wsel.keys) = MinOf(grant, 10 * walkerRate)
        /\ 1 <= Len(wsel.keys)
        /\ Len(wsel.keys) <= 10 * walkerRate

\* The rate police granted more than ten times the rate and the walker read
\* ten keys.
C15_Witness ==
    /\ walkerRate = 1 /\ wsel.made
    /\ grant = 11
    /\ Len(wsel.keys) = 10

\* The size of the batch the driver is collecting, none outside a batch.
BatchTarget ==
    IF grant > 0 /\ MinOf(grant, 10 * walkerRate) > 0
    THEN MinOf(grant, 10 * walkerRate) ELSE 0

\* C16: while the rate police grants nothing the driver receives no key and
\* makes no Select, and the producer stays blocked in its send; the keys
\* handed over and not yet passed to Select never exceed the size of the
\* batch being collected, which is at most 10 * walkerRate.
C16_Backpressure ==
    /\ inFlight >= 0
    /\ inFlight <= BatchTarget
    /\ BatchTarget <= MaxOf({0, 10 * walkerRate})
    /\ dpc = "sleep" => (grant <= 0 /\ inFlight = 0 /\ wsel = NoSelect)
    /\ dpc # "collect" => ~ENABLED KeyHandoff

\* The driver is throttled after an earlier batch while the producer waits
\* in its send.
C16_Witness ==
    /\ walkerRate = 1 /\ dpc = "sleep" /\ ppc = "send"
    /\ walkerSelects

\* C17: the completions sent to the caller never outnumber the completed
\* sweeps, a buffered completion stands for a completed sweep not yet sent on,
\* and neither the producer's send into walkCompleted nor the driver's
\* forwarding step ever blocks.
C17_ForwardingNeverInvents ==
    /\ credit >= 0
    /\ walkCompleted \in {0, 1}
    /\ credit >= walkCompleted
    /\ ppc = "completed" => ENABLED ProducerCompleted
    /\ dpc = "forward" => ENABLED DriverForward

\* A completion reached the caller, every completed sweep is accounted for,
\* and the producer raises the next completion while the driver is busy.
C17_Witness ==
    /\ forwarded /\ credit = 0 /\ walkCompleted = 0
    /\ ppc = "completed" /\ dpc = "collect"

\* C20: every walker batch is read through Farm.Select, which reports it to
\* the rate police: the batch of b keys follows a grant of at least b and its
\* Select reports exactly b, and the keys reported in all are the keys of the
\* clients' Selects and of the walker's batches together.
C20_WalkerBatchesReported ==
    /\ unreported = 0
    /\ wsel.made =>
          /\ grant > 0
          /\ grant >= Len(wsel.keys)
          /\ Reported(wsel.calls) = Len(wsel.keys)

\* A walker batch of two keys was granted and reported while a client had
\* read a key of its own.
C20_Witness ==
    /\ wsel.made /\ Len(wsel.keys) = 2 /\ grant = 2
    /\ Reported(wsel.calls) = 2
    /\ csel.made /\ Len(csel.keys) = 1

====
